---- MODULE Spec2Model ----
(***************************************************************************)
(* Model of the portfolio snapshot pipeline (src/main.py), of the dYdX v4  *)
(* adapter (src/src/wallet_processing/dydxv4.py) and of the Octav adapter  *)
(* (src/src/wallet_processing/octav.py): pro-rata equity attribution, gap  *)
(* filling, the value filter, the two beta passes with the stable          *)
(* override, the snapshot and the ledger that repeated runs append to.     *)
(*                                                                         *)
(* Floats are modelled as exact rationals [nan, n, d] (d > 0, reduced),    *)
(* with a distinguished NaN.  Python's float division by zero raises, and  *)
(* is modelled as an exception of the enclosing call.                      *)
(*                                                                         *)
(* Four functions are also modelled on their own, each with its own        *)
(* specification: the beta of one asset (beta_calculator.py), the retry    *)
(* loop of fetch_with_retries (utils.py) and fetch_data (solana.py), the   *)
(* price fallback of fetch_multiple_prices (fetch_prices.py) and the       *)
(* paging of fetch_and_filter_transactions (blockcypher.py).               *)
(***************************************************************************)
EXTENDS Integers, Sequences, FiniteSets, TLC

(***************************************************************************)
(* Bounds of the explored inputs.                                          *)
(***************************************************************************)
MaxPos == 2
MaxSize == 2
MaxPrice == 1
MaxEquity == 3
MaxSub == 2
MaxRuns == 2

(***************************************************************************)
(* Numbers: rationals and NaN.                                             *)
(***************************************************************************)
NaN == [nan |-> TRUE, n |-> 0, d |-> 1]

AbsInt(i) == IF i < 0 THEN -i ELSE i

RECURSIVE Gcd(_, _)
Gcd(a, b) == IF b = 0 THEN a ELSE Gcd(b, a % b)

Rat(n, d) ==
    LET g == Gcd(AbsInt(n), d)
    IN  [nan |-> FALSE, n |-> n \div g, d |-> d \div g]

Num(i) == [nan |-> FALSE, n |-> i, d |-> 1]

IsNaN(a) == a.nan

\* common factors are cancelled before the products are formed
Mul(a, b) ==
    IF a.nan \/ b.nan THEN NaN
    ELSE LET g1 == Gcd(AbsInt(a.n), b.d)
             g2 == Gcd(AbsInt(b.n), a.d)
         IN  Rat((a.n \div g1) * (b.n \div g2), (a.d \div g2) * (b.d \div g1))

Add(a, b) ==
    IF a.nan \/ b.nan THEN NaN
    ELSE LET g == Gcd(a.d, b.d)
         IN  Rat(a.n * (b.d \div g) + b.n * (a.d \div g), (a.d \div g) * b.d)

AbsR(a) == IF a.nan THEN NaN ELSE [a EXCEPT !.n = AbsInt(a.n)]

IsZero(a) == ~a.nan /\ a.n = 0

\* a / b for b # 0 (the callers raise on b = 0, as Python does)
Div(a, b) ==
    IF a.nan \/ b.nan THEN NaN
    ELSE IF b.n < 0 THEN Rat(-(a.n * b.d), a.d * (-b.n))
    ELSE Rat(a.n * b.d, a.d * b.n)

\* comparisons with NaN are False, as in IEEE 754
Less(a, b) == ~a.nan /\ ~b.nan /\ a.n * b.d < b.n * a.d

GreaterEq(a, b) == ~a.nan /\ ~b.nan /\ a.n * b.d >= b.n * a.d

RECURSIVE SumSeq(_)
SumSeq(s) == IF s = <<>> THEN Num(0) ELSE Add(Head(s), SumSeq(Tail(s)))

SeqsUpTo(S, n) == UNION {[1..k -> S] : k \in 0..n}

(***************************************************************************)
(* Strings that the code manipulates are sequences of characters.          *)
(***************************************************************************)
BTC_USD == <<"B", "T", "C", "-", "U", "S", "D">>
ETH_USD == <<"E", "T", "H", "-", "U", "S", "D">>
BTC == <<"B", "T", "C">>
ETH == <<"E", "T", "H">>
USDC == <<"U", "S", "D", "C">>
NoSymbol == <<>>

\* str.upper()
Upper(s) ==
    LET lower == <<"a", "b", "c", "d", "e", "f", "g", "h", "i", "j", "k", "l", "m",
                   "n", "o", "p", "q", "r", "s", "t", "u", "v", "w", "x", "y", "z">>
        upper == <<"A", "B", "C", "D", "E", "F", "G", "H", "I", "J", "K", "L", "M",
                   "N", "O", "P", "Q", "R", "S", "T", "U", "V", "W", "X", "Y", "Z">>
    IN  [i \in 1..Len(s) |->
            IF \E j \in 1..26 : lower[j] = s[i]
            THEN upper[CHOOSE j \in 1..26 : lower[j] = s[i]]
            ELSE s[i]]

\* str.rstrip(chars): drop every trailing character that is in chars
RECURSIVE RStrip(_, _)
RStrip(s, chars) ==
    IF s # <<>> /\ s[Len(s)] \in chars
    THEN RStrip(SubSeq(s, 1, Len(s) - 1), chars)
    ELSE s

(***************************************************************************)
(* Configuration (src/config.py) and the run's lookback window.            *)
(***************************************************************************)
\* the window [start_date, end_date] of main(): yesterday .. today
StartDate == 1
EndDate == 2

\* WALLETS: a dYdX wallet, an EVM wallet read through Octav, and a wallet of
\* manually entered positions
WALLETS ==
    << [id |-> 1, type |-> "DYDX"], [id |-> 2, type |-> "EVM"],
       [id |-> 3, type |-> "MANUAL"] >>

\* MANUAL_POSITIONS: the manually entered positions
MANUAL_POSITIONS ==
    << [chain |-> "ethereum", protocol |-> "manual", symbol |-> ETH,
        amount |-> 2, position_type |-> "LOCK"],
       [chain |-> "ethereum", protocol |-> "manual", symbol |-> USDC,
        amount |-> -1, position_type |-> "borrow"] >>

\* ASSETS_DICT: symbol -> asset metadata; a symbol that is not a key has none
ASSETS_DICT ==
    (BTC :> [base_asset |-> BTC, asset_type |-> "MAJOR"]) @@
    (ETH :> [base_asset |-> ETH, asset_type |-> "MAJOR"]) @@
    (USDC :> [base_asset |-> USDC, asset_type |-> "STABLE"])

(***************************************************************************)
(* The dYdX indexer: what it holds for an address, and the three queries   *)
(* the adapter makes.                                                      *)
(***************************************************************************)
Markets == {BTC_USD, ETH_USD}

\* result of fetch_dydxv4_oracle_price: a price, or -1 when the call raises
OracleDown == -1
OracleResults == {OracleDown, 0, MaxPrice}

Sizes == {-1, 0, MaxSize}

Equities == {-1, 0, MaxEquity}

\* closedAt of a closed position: before the window, or inside it
ClosedAts == {StartDate - 1, StartDate}

\* perpetual position records as the indexer returns them; missing names a
\* field the record lacks ("none": well formed)
OpenPerps ==
    [market : Markets, status : {"OPEN"}, size : Sizes, entryPrice : {2},
     oracle : OracleResults, closedAt : {0}, missing : {"none"}]

ClosedPerps ==
    [market : Markets, status : {"CLOSED"}, size : {0, MaxSize}, entryPrice : {2},
     oracle : {MaxPrice}, closedAt : ClosedAts, missing : {"none"}]

MalformedPerps ==
    [market : {BTC_USD}, status : {"OPEN", "CLOSED"}, size : {0}, entryPrice : {2},
     oracle : {MaxPrice}, closedAt : {StartDate}, missing : {"size"}]

RawPerps == OpenPerps \cup ClosedPerps \cup MalformedPerps

\* the subaccounts after the first: never queried by process_dydxv4_positions
OtherSubaccounts ==
    [equity : {MaxEquity},
     perps : {<<[market |-> ETH_USD, status |-> "OPEN", size |-> MaxSize,
                 entryPrice |-> 2, oracle |-> MaxPrice, closedAt |-> 0,
                 missing |-> "none"]>>},
     usdc : {0}]

FirstSubaccounts(perps) ==
    [equity : Equities, perps : SeqsUpTo(perps, MaxPos), usdc : {0, 2}]

\* an address is the sequence of its subaccounts, in subaccountNumber order
\* (number = index - 1): a first subaccount followed by these
MoreSubaccounts == SeqsUpTo(OtherSubaccounts, MaxSub - 1)

\* GET addresses/{address}
fetch_dydxv4_address_info(acct) ==
    [subaccounts |-> [i \in 1..Len(acct) |->
        [subaccountNumber |-> i - 1, equity |-> acct[i].equity]]]

\* GET perpetualPositions?subaccountNumber=n
fetch_dydxv4_perpetual_positions(acct, subaccount_number) ==
    [positions |-> acct[subaccount_number + 1].perps]

\* GET assetPositions?subaccountNumber=n
fetch_dydxv4_user_assets(acct, subaccount_number) ==
    [positions |-> <<[symbol |-> USDC, size |-> acct[subaccount_number + 1].usdc]>>]

(***************************************************************************)
(* Position rows.  beta_daily / beta_weekly are "absent" until a beta pass *)
(* creates the columns; a computed beta carries the source whose data      *)
(* produced it.  origin is not a column: it records which upstream record  *)
(* a row was made from, so that properties can name the row.               *)
(***************************************************************************)
BetaAbsent == [k |-> "absent", src |-> "-"]
BetaNaN == [k |-> "nan", src |-> "-"]
BetaZero == [k |-> "zero", src |-> "-"]
BetaFrom(source) == [k |-> "num", src |-> source]

NoRow == [wallet_id |-> 0, protocol |-> "-", position_id |-> <<>>,
          position_type |-> "-", symbol |-> NoSymbol, base_asset |-> NoSymbol,
          asset_type |-> "None", amount |-> NaN, price |-> NaN, value |-> NaN,
          equity |-> NaN, notional |-> NaN, cost_basis |-> NaN,
          beta_daily |-> BetaAbsent, beta_weekly |-> BetaAbsent,
          date |-> 0, index |-> 0, origin |-> [kind |-> "-", idx |-> 0]]

\* create_position of the dYdX adapter; exc names the exception it raises
create_position(wallet, asset, position_type, origin) ==
    IF position_type = "spot" \/ position_type = "cash"
    THEN LET symbol == asset.symbol
             amount == Num(asset.size)
             price == IF symbol = USDC THEN Num(1) ELSE NaN
         IN  [exc |-> "none",
              row |-> [NoRow EXCEPT
                  !.wallet_id = wallet.id,
                  !.protocol = "dydxv4",
                  !.position_id = <<wallet.id, "dydx", "dydxv4", position_type, symbol>>,
                  !.position_type = position_type,
                  !.symbol = symbol,
                  !.amount = amount,
                  !.price = price,
                  !.value = Mul(price, amount),
                  !.equity = amount,
                  !.notional = AbsR(Mul(price, amount)),
                  !.cost_basis = NaN,
                  !.origin = origin]]
    ELSE IF asset.missing # "none"
    THEN [exc |-> "KeyError", row |-> NoRow]
    ELSE LET market == asset.market
             symbol == RStrip(market, {"-", "U", "S", "D"})
             amount == Num(asset.size)
             entry_price == Num(asset.entryPrice)
             oracle_price == IF asset.oracle = OracleDown
                             THEN entry_price ELSE Num(asset.oracle)
             price == oracle_price
         IN  [exc |-> "none",
              row |-> [NoRow EXCEPT
                  !.wallet_id = wallet.id,
                  !.protocol = "dydxv4",
                  !.position_id = <<wallet.id, "dydx", "dydxv4", position_type, symbol>>,
                  !.position_type = position_type,
                  !.symbol = symbol,
                  !.amount = amount,
                  !.price = price,
                  !.value = Mul(price, amount),
                  !.equity = NaN,
                  !.notional = AbsR(Mul(price, amount)),
                  !.cost_basis = Mul(entry_price, amount),
                  !.origin = origin]]

\* indices of s (ascending) that satisfy the test, as a sequence
RECURSIVE IdxFrom(_, _, _)
IdxFrom(s, ok, i) ==
    IF i > Len(s) THEN <<>>
    ELSE IF ok[i] THEN <<i>> \o IdxFrom(s, ok, i + 1)
    ELSE IdxFrom(s, ok, i + 1)

\* position_equity without the multiplication by the account equity
position_equity_share_only(position, total_notional, total_equity) ==
    Div(position.notional, total_notional)

\* position_equity weighting by the signed value instead of the notional
position_equity_signed(position, total_notional, total_equity) ==
    Mul(Div(position.value, total_notional), total_equity)

\* the pro-rata share of one open position (line 194); total_notional # 0
position_equity(position, total_notional, total_equity) ==
    Mul(Div(position.notional, total_notional), total_equity)

\* process_dydxv4_positions(wallet, start_date, end_date) against the
\* indexer state acct: the exception it raises, or the positions it returns
process_dydxv4_positions(wallet, acct, start_date, end_date) ==
    LET assets == fetch_dydxv4_user_assets(acct, 0)
        perp_positions == fetch_dydxv4_perpetual_positions(acct, 0)
        address_info == fetch_dydxv4_address_info(acct)
        total_equity == Num(address_info.subaccounts[1].equity)
        raw == perp_positions.positions
        open_idx == IdxFrom(raw, [i \in 1..Len(raw) |-> raw[i].status = "OPEN"], 1)
        created_open == [k \in 1..Len(open_idx) |->
            create_position(wallet, raw[open_idx[k]], "perps",
                            [kind |-> "OPEN", idx |-> open_idx[k]])]
        open_positions == [k \in 1..Len(open_idx) |-> created_open[k].row]
        total_notional ==
            SumSeq([k \in 1..Len(open_idx) |-> open_positions[k].notional])
        attributed == [k \in 1..Len(open_idx) |->
            [open_positions[k] EXCEPT !.equity =
                position_equity(open_positions[k], total_notional, total_equity)]]
        closed_idx == IdxFrom(raw, [i \in 1..Len(raw) |->
            /\ raw[i].status = "CLOSED"
            /\ start_date <= raw[i].closedAt
            /\ raw[i].closedAt <= end_date], 1)
        created_closed == [k \in 1..Len(closed_idx) |->
            create_position(wallet, raw[closed_idx[k]], "perps",
                            [kind |-> "CLOSED", idx |-> closed_idx[k]])]
        cash_idx == IdxFrom(assets.positions, [i \in 1..Len(assets.positions) |->
            /\ assets.positions[i].symbol = USDC
            /\ assets.positions[i].size > 0], 1)
        cash == [k \in 1..Len(cash_idx) |->
            [create_position(wallet, assets.positions[cash_idx[k]], "cash",
                             [kind |-> "CASH", idx |-> cash_idx[k]]).row
             EXCEPT !.notional = NaN]]
    IN  IF \E k \in 1..Len(open_idx) : created_open[k].exc # "none"
        THEN [exc |-> "KeyError", positions |-> <<>>]
        ELSE IF open_idx # <<>> /\ IsZero(total_notional)
        THEN [exc |-> "ZeroDivisionError", positions |-> <<>>]
        ELSE IF \E k \in 1..Len(closed_idx) : created_closed[k].exc # "none"
        THEN [exc |-> "KeyError", positions |-> <<>>]
        ELSE [exc |-> "none",
              positions |-> attributed
                            \o [k \in 1..Len(closed_idx) |-> created_closed[k].row]
                            \o (IF open_idx = <<>> THEN cash ELSE <<>>)]

(***************************************************************************)
(* The Octav portfolio of an EVM address.  The response is reduced to one  *)
(* protocol on one chain with one position type, whose nested protocol     *)
(* positions list the supplied and the borrowed assets; a failed request   *)
(* gives the empty dictionary.                                             *)
(***************************************************************************)
OctavSymbols == {USDC, <<"e", "t", "h">>}

OctavAssets == [symbol : OctavSymbols, price : {MaxPrice}, balance : {MaxSize}]

OctavNested ==
    [supplyAssets : SeqsUpTo(OctavAssets, 1), borrowAssets : SeqsUpTo(OctavAssets, 1)]

\* fetch_octav_portfolio: {} on a request error
EmptyPortfolio == [fetched |-> FALSE, protocol_key |-> "-", chain_key |-> "-",
                   position_type |-> "-", protocolPositions |-> <<>>]

OctavPortfolios ==
    {EmptyPortfolio} \cup
    [fetched : {TRUE}, protocol_key : {"aave"}, chain_key : {"ethereum"},
     position_type : {"LENDING"}, protocolPositions : SeqsUpTo(OctavNested, 1)]

\* position_type.lower(), on the position types of the portfolios
PositionTypeLower == [t \in {"LENDING"} |-> "lending"]

\* create_position of the Octav adapter
create_octav_position(wallet, chain, protocol, position_type, symbol, amount, price, origin) ==
    [NoRow EXCEPT
        !.wallet_id = wallet.id,
        !.protocol = protocol,
        !.position_id = <<wallet.id, chain, protocol, position_type, symbol>>,
        !.position_type = position_type,
        !.symbol = symbol,
        !.amount = amount,
        !.price = price,
        !.value = Mul(amount, price),
        !.origin = origin]

\* the rows of one nested protocol position: supplyAssets, then borrowAssets
\* with the amount negated (lines 126-161)
octav_nested_rows(wallet, data, n) ==
    LET nested == data.protocolPositions[n]
        row(asset, sign, kind, i) ==
            create_octav_position(wallet, data.chain_key, data.protocol_key,
                PositionTypeLower[data.position_type], Upper(asset.symbol),
                Num(sign * asset.balance), Num(asset.price),
                [kind |-> kind, idx |-> i])
    IN  [i \in 1..Len(nested.supplyAssets) |->
            row(nested.supplyAssets[i], 1, "SUPPLY", i)]
        \o [i \in 1..Len(nested.borrowAssets) |->
            row(nested.borrowAssets[i], -1, "BORROW", i)]

RECURSIVE octav_rows_from(_, _, _)
octav_rows_from(wallet, data, n) ==
    IF n > Len(data.protocolPositions) THEN <<>>
    ELSE octav_nested_rows(wallet, data, n) \o octav_rows_from(wallet, data, n + 1)

\* process_octav_portfolio(data, wallet)
process_octav_portfolio(data, wallet) ==
    IF ~data.fetched THEN <<>> ELSE octav_rows_from(wallet, data, 1)

\* create_manual_position
create_manual_position(wallet, chain, protocol, position_type, symbol, amount, origin) ==
    [NoRow EXCEPT
        !.wallet_id = wallet.id,
        !.protocol = protocol,
        !.position_id = <<wallet.id, chain, protocol, position_type, symbol>>,
        !.position_type = position_type,
        !.symbol = symbol,
        !.amount = Num(amount),
        !.origin = origin]

\* process_manual_positions(MANUAL_POSITIONS, wallet)
process_manual_positions(manual_positions, wallet) ==
    [i \in 1..Len(manual_positions) |->
        create_manual_position(wallet, manual_positions[i].chain,
            manual_positions[i].protocol, manual_positions[i].position_type,
            manual_positions[i].symbol, manual_positions[i].amount,
            [kind |-> "MANUAL", idx |-> i])]

(***************************************************************************)
(* Table operations of src/main.py.  A DataFrame is a sequence of rows;    *)
(* each row carries its index label.                                       *)
(***************************************************************************)
\* pd.DataFrame(all_positions): a RangeIndex 0..n-1
DataFrame(rows) == [i \in 1..Len(rows) |-> [rows[i] EXCEPT !.index = i - 1]]

Symbols(df) == {df[i].symbol : i \in 1..Len(df)}

\* enrich_positions_with_asset_info
enrich_positions_with_asset_info(df, assets_dict) ==
    [i \in 1..Len(df) |->
        IF df[i].symbol \in DOMAIN assets_dict
        THEN [df[i] EXCEPT !.base_asset = assets_dict[df[i].symbol].base_asset,
                           !.asset_type = assets_dict[df[i].symbol].asset_type]
        ELSE [df[i] EXCEPT !.base_asset = NoSymbol, !.asset_type = "None"]]

\* groupby('symbol')['price'].transform(lambda x: x.ffill().bfill())
FfillBfillPrice(df, i) ==
    LET before == {j \in 1..(i - 1) : df[j].symbol = df[i].symbol /\ ~IsNaN(df[j].price)}
        after == {j \in (i + 1)..Len(df) : df[j].symbol = df[i].symbol /\ ~IsNaN(df[j].price)}
    IN  IF ~IsNaN(df[i].price) THEN df[i].price
        ELSE IF before # {} THEN df[CHOOSE j \in before : \A k \in before : k <= j].price
        ELSE IF after # {} THEN df[CHOOSE j \in after : \A k \in after : j <= k].price
        ELSE NaN

\* the stable / negative rule of the notional column (lines 159-162)
notional_of(row) ==
    IF row.asset_type = "STABLE" /\ Less(row.value, Num(0))
    THEN Num(0) ELSE AbsR(row.value)

\* the equity rule without the exception for perps
equity_of_fillna(row) == IF IsNaN(row.equity) THEN row.value ELSE row.equity

\* the equity rule (lines 153-156)
equity_of(row) ==
    IF IsNaN(row.equity) /\ row.position_type # "perps"
    THEN row.value ELSE row.equity

\* symbols whose price is still missing after the in-table fill
missing_price_symbols(df) ==
    {df[i].symbol : i \in {j \in 1..Len(df) : IsNaN(FfillBfillPrice(df, j))}}

\* fill_missing_prices_values_and_equity; fetched_prices is the result of
\* fetch_multiple_prices (a symbol without a price is not a key)
fill_missing_prices_values_and_equity(df, fetched) ==
    LET priced == [i \in 1..Len(df) |->
            LET p == FfillBfillPrice(df, i)
            IN  [df[i] EXCEPT !.price =
                    IF IsNaN(p) /\ df[i].symbol \in DOMAIN fetched
                    THEN fetched[df[i].symbol] ELSE p]]
        valued == [i \in 1..Len(df) |->
            [priced[i] EXCEPT !.value =
                IF IsNaN(priced[i].value)
                THEN Mul(priced[i].amount, priced[i].price) ELSE priced[i].value]]
        equitied == [i \in 1..Len(df) |->
            [valued[i] EXCEPT !.equity = equity_of(valued[i])]]
    IN  [i \in 1..Len(df) |->
            [equitied[i] EXCEPT !.notional = notional_of(equitied[i])]]

\* positions_df[positions_df['value'].abs() >= 1]
value_filter(df) ==
    SelectSeq(df, LAMBDA row : GreaterEq(AbsR(row.value), Num(1)))

\* positions_df['date'] = pd.to_datetime(end_date).date()
add_date(df, day) == [i \in 1..Len(df) |-> [df[i] EXCEPT !.date = day]]

\* pd.concat([positions_db_df, positions_df], ignore_index=False)
concat(db, df) == db \o df

(***************************************************************************)
(* Beta passes.  A historical fetch of one symbol from one source yields   *)
(* "VALID" (a dated series from which a finite beta results), "EMPTY" (the *)
(* source's error path: pd.Series(dtype=float), which has no date index)   *)
(* or "RAISE" (the call raises).                                           *)
(***************************************************************************)
FetchOutcomes == {"VALID", "EMPTY", "RAISE"}

BaseAssets(df) == {df[i].base_asset : i \in 1..Len(df)}

\* what fetching covers: an outcome for every base asset of df; no source
\* knows the asset None
HistoryFor(assets, outcomes) ==
    {h \in [assets -> outcomes \cup {"EMPTY"}] :
        \A a \in assets : IF a = NoSymbol THEN h[a] = "EMPTY" ELSE h[a] \in outcomes}

\* the override applied only where the computed beta is NaN
stable_override_if_nan(row, beta) ==
    IF row.asset_type = "STABLE" /\ beta = BetaNaN THEN BetaZero ELSE beta

\* the stable override (lines 47-50)
stable_override(row, beta) ==
    IF row.asset_type = "STABLE" THEN BetaZero ELSE beta

\* the per-asset loop body (lines 21-41): the most recent rolling beta, or
\* NaN when anything inside the try block raised
asset_beta(outcome, source) ==
    IF outcome = "VALID" THEN BetaFrom(source) ELSE BetaNaN

\* add_beta_to_positions without the try block around an asset's history
add_beta_to_positions_no_try(df, btc_data, history, source) ==
    IF btc_data # "VALID" \/ \E a \in DOMAIN history : history[a] # "VALID"
    THEN [exc |-> "TypeError", df |-> df]
    ELSE [exc |-> "none",
          df |-> [i \in 1..Len(df) |->
              [df[i] EXCEPT !.beta_daily = stable_override(df[i], BetaFrom(source)),
                            !.beta_weekly = stable_override(df[i], BetaFrom(source))]]]

\* add_beta_to_positions(positions_df, btc_data, fetch_historical_data_func);
\* resample on a series without a date index raises, outside the try block
add_beta_to_positions(df, btc_data, history, source) ==
    IF btc_data # "VALID"
    THEN [exc |-> "TypeError", df |-> df]
    ELSE [exc |-> "none",
          df |-> [i \in 1..Len(df) |->
              LET beta == asset_beta(history[df[i].base_asset], source)
              IN  [df[i] EXCEPT !.beta_daily = stable_override(df[i], beta),
                                !.beta_weekly = stable_override(df[i], beta)]]]

\* base assets of the rows whose beta_daily is NaN (line 235)
missing_beta_assets(df) ==
    {df[i].base_asset : i \in {j \in 1..Len(df) : df[j].beta_daily = BetaNaN}}

\* positions_df[positions_df['base_asset'].isin(missing_beta_assets)]['value'].sum()
\* (line 238); sum() skips NaN
missing_value(df, missing) ==
    SumSeq([i \in 1..Len(df) |->
        IF df[i].base_asset \in missing /\ ~IsNaN(df[i].value)
        THEN df[i].value ELSE Num(0)])

\* the second pass handed the whole table
missing_positions_all(df, missing) == df

\* positions_df[positions_df['base_asset'].isin(missing_beta_assets)] (line 244)
missing_positions(df, missing) ==
    SelectSeq(df, LAMBDA row : row.base_asset \in missing)

\* an update that never writes
UpdateValue_keep(old, new) == old

\* DataFrame.update on a beta column: only non-NA values of other overwrite
UpdateValue(old, new) == IF new = BetaNaN THEN old ELSE new

\* positions_df.update(other), rows aligned on the index label
DataFrameUpdate(df, other) ==
    [i \in 1..Len(df) |->
        LET match == {j \in 1..Len(other) : other[j].index = df[i].index}
        IN  IF match = {} THEN df[i]
            ELSE LET o == other[CHOOSE j \in match : TRUE]
                 IN  [df[i] EXCEPT
                         !.beta_daily = UpdateValue(df[i].beta_daily, o.beta_daily),
                         !.beta_weekly = UpdateValue(df[i].beta_weekly, o.beta_weekly)]]

(***************************************************************************)
(* dYdX fills, and the transactions made from them.                        *)
(***************************************************************************)
\* what fetch_dydxv4_user_fills_with_start_date gives: it raises, or returns
\* the fills of the window
DydxFills ==
    {[raises |-> TRUE, fills |-> <<>>]} \cup
    [raises : {FALSE}, fills : SeqsUpTo([id : {"fill"}], 1)]

\* create_transaction of the dYdX adapter, for a fill
create_transaction(wallet, tx, tx_type) ==
    [wallet_id |-> wallet.id, transaction_id |-> tx.id, type |-> tx_type]

\* process_dydxv4_transactions(wallet, start_date, end_date); rewards and
\* transfers are taken to be empty
process_dydxv4_transactions(wallet, fetched) ==
    IF fetched.raises
    THEN [exc |-> "HTTPError", transactions |-> <<>>]
    ELSE [exc |-> "none",
          transactions |-> [i \in 1..Len(fetched.fills) |->
              create_transaction(wallet, fetched.fills[i], "fill")]]

(***************************************************************************)
(* State: the position of main(), the locals of process_wallets and of     *)
(* main, and the files that outlive a run.                                 *)
(***************************************************************************)
VARIABLES
    pc,             \* where main() is
    wi,             \* process_wallets: index of the next wallet of WALLETS
    indexer,        \* what the dYdX indexer returned for the DYDX wallet
    portfolio,      \* what Octav returned for the EVM wallet
    transactions,   \* process_wallets: the local of that name, once bound
    all_positions,  \* process_wallets: positions collected so far
    all_transactions, \* process_wallets: transactions collected so far
    wallet_errors,  \* wallets whose processing raised, with the exception
    positions_df,   \* the positions table
    fetched_prices, \* what fetch_multiple_prices returned
    history,        \* historical-data outcomes seen by the two beta passes
    missing_beta_warning, \* the warning about assets without beta, once logged
    positions_file, \* the persisted snapshot (positions.xlsx)
    positions_db,   \* the historical ledger (positions_db.xlsx)
    end_date,       \* the day of the run
    runs            \* runs of main() started so far

\* one asset's pass through the loop of add_beta_to_positions
VARIABLES
    asset_type,          \* the asset_type of the positions of the asset
    asset_daily_returns, \* the asset's daily returns, latest last
    btc_daily_returns,   \* the benchmark's daily returns, latest last
    beta_daily           \* the pass' outcome, once it is made

\* one call of fetch_with_retries (utils.py) or of fetch_data (solana.py)
VARIABLES
    fn,             \* which of the two functions is running
    retries,        \* the argument of that name
    attempt,        \* the local of that name
    response,       \* the local of that name, once bound
    served,         \* what each request met, in order
    sleeps,         \* the delays slept so far, in order
    fetch_result    \* how the call ended, once it has

\* one call of fetch_multiple_prices (fetch_prices.py)
VARIABLES
    symbols,        \* the argument of that name
    price_sources,  \* what the asset dictionary and the two sources hold
    queried,        \* the queries made so far, in order
    prices,         \* the local of that name
    si              \* index of the next symbol; 0 once a call has raised

\* one call of fetch_and_filter_transactions (blockcypher.py)
VARIABLES
    max_transactions,   \* the argument of that name
    before,             \* the local of that name
    filtered,           \* the local all_transactions
    filter_result       \* how the call ended, once it has

walletState == <<wi, indexer, portfolio, transactions, all_positions,
                 all_transactions, wallet_errors>>

tableState == <<positions_df, fetched_prices, history, missing_beta_warning>>

fileState == <<positions_file, positions_db>>

runState == <<end_date, runs>>

betaState == <<asset_type, asset_daily_returns, btc_daily_returns, beta_daily>>

retryState == <<fn, retries, attempt, response, served, sleeps, fetch_result>>

priceState == <<symbols, price_sources, queried, prices, si>>

pageState == <<max_transactions, before, filtered, filter_result>>

callState == <<betaState, retryState, priceState, pageState>>

pipelineState == <<pc, walletState, tableState, fileState, runState>>

vars == <<pipelineState, callState>>

NoHistory == [btc1 |-> "-", primary |-> <<>>, btc2 |-> "-", secondary |-> <<>>]

Unbound == [bound |-> FALSE, rows |-> <<>>]

NoWarning == [logged |-> FALSE, assets |-> {}, value |-> Num(0)]

\* no pass of the beta loop has been made
NoBeta == [made |-> FALSE, raised |-> "none", computed |-> NaN, value |-> BetaAbsent]

\* the local response before the first request: unbound
NoResponse == [bound |-> FALSE, status_code |-> 0, body |-> "-"]

\* the call has not ended
Running == [state |-> "running", value |-> "-"]

\* no pass of the beta loop is under way
NoBetaPass ==
    /\ asset_type = "MAJOR"
    /\ asset_daily_returns = <<>>
    /\ btc_daily_returns = <<>>
    /\ beta_daily = NoBeta

\* no call of fetch_with_retries or fetch_data is under way
NoFetch ==
    /\ fn = "fetch_with_retries"
    /\ retries = 0
    /\ attempt = 0
    /\ response = NoResponse
    /\ served = <<>>
    /\ sleeps = <<>>
    /\ fetch_result = Running

\* no call of fetch_multiple_prices is under way
NoPriceFetch ==
    /\ symbols = <<>>
    /\ price_sources = <<>>
    /\ queried = <<>>
    /\ prices = <<>>
    /\ si = 1

\* no call of fetch_and_filter_transactions is under way
NoPageFetch ==
    /\ max_transactions = 0
    /\ before = 0
    /\ filtered = <<>>
    /\ filter_result = Running

NoCalls == NoBetaPass /\ NoFetch /\ NoPriceFetch /\ NoPageFetch

\* main() is about to start, with no file on disk
PipelineInit ==
    /\ pc = "wallets"
    /\ wi = 1
    /\ indexer = <<>>
    /\ portfolio = <<>>
    /\ transactions = Unbound
    /\ all_positions = <<>>
    /\ all_transactions = <<>>
    /\ wallet_errors = {}
    /\ positions_df = <<>>
    /\ fetched_prices = <<>>
    /\ history = NoHistory
    /\ missing_beta_warning = NoWarning
    /\ positions_file = <<>>
    /\ positions_db = <<>>
    /\ end_date = EndDate
    /\ runs = 1

Init == PipelineInit /\ NoCalls

\* a wallet's processing raised: the handler logs it (lines 87-88)
LogError(wallet, exc) ==
    wallet_errors' = wallet_errors \cup {[wallet |-> wallet.id, exc |-> exc]}

\* one iteration of the loop of process_wallets (lines 43-88)
ProcessWallet(firsts, rests, fillsets, portfolios) ==
    /\ pc = "wallets"
    /\ wi <= Len(WALLETS)
    /\ wi' = wi + 1
    /\ LET wallet == WALLETS[wi]
       IN  CASE wallet.type = "DYDX" ->
                \E first \in firsts, rest \in rests, fetched \in fillsets :
                   LET acct == <<first>> \o rest
                       res == process_dydxv4_positions(wallet, acct,
                                                       end_date - 1, end_date)
                       txs == process_dydxv4_transactions(wallet, fetched)
                   IN  /\ indexer' = <<acct>>
                       /\ IF res.exc # "none"
                          THEN /\ LogError(wallet, res.exc)
                               /\ UNCHANGED <<transactions, all_positions,
                                              all_transactions>>
                          ELSE IF txs.exc # "none"
                          THEN /\ LogError(wallet, txs.exc)
                               /\ UNCHANGED <<transactions, all_positions,
                                              all_transactions>>
                          ELSE /\ transactions' =
                                      [bound |-> TRUE, rows |-> txs.transactions]
                               /\ all_positions' = all_positions \o res.positions
                               /\ all_transactions' =
                                      all_transactions \o txs.transactions
                               /\ UNCHANGED wallet_errors
                       /\ UNCHANGED portfolio
             [] wallet.type = "EVM" ->
                \E data \in portfolios :
                   LET positions == process_octav_portfolio(data, wallet)
                   IN  /\ portfolio' = <<data>>
                       /\ all_positions' = all_positions \o positions
                       /\ IF transactions.bound
                          THEN /\ all_transactions' =
                                      all_transactions \o transactions.rows
                               /\ UNCHANGED wallet_errors
                          ELSE /\ LogError(wallet, "UnboundLocalError")
                               /\ UNCHANGED all_transactions
                       /\ UNCHANGED <<indexer, transactions>>
             [] wallet.type = "MANUAL" ->
                /\ all_positions' = all_positions \o
                       process_manual_positions(MANUAL_POSITIONS, wallet)
                /\ transactions' = [bound |-> TRUE, rows |-> <<>>]
                /\ all_transactions' = all_transactions \o <<>>
                /\ UNCHANGED <<indexer, portfolio, wallet_errors>>
    /\ UNCHANGED <<pc, tableState, fileState, runState, callState>>

\* process_wallets returns; main enriches and fills the table (lines 90-93,
\* 178-181).  A table built from no position has no 'symbol' column, and
\* enriching it raises.
EnrichAndFill ==
    /\ pc = "wallets"
    /\ wi > Len(WALLETS)
    /\ IF all_positions = <<>>
       THEN /\ pc' = "crashed"
            /\ UNCHANGED <<positions_df, fetched_prices>>
       ELSE /\ pc' = "filter"
            /\ LET df == enrich_positions_with_asset_info(DataFrame(all_positions),
                                                          ASSETS_DICT)
                   missing == missing_price_symbols(df)
               IN  \E obtained \in SUBSET missing :
                   \E fetched \in [obtained -> {Num(p) : p \in 1..MaxPrice}] :
                      /\ fetched_prices' = fetched
                      /\ positions_df' = fill_missing_prices_values_and_equity(df, fetched)
    /\ UNCHANGED <<walletState, history, missing_beta_warning, fileState, runState, callState>>

\* the value filter (line 184) and the date column (line 208);
\* POSITIONS_DICT, which may rename a position (lines 211-222), is taken to
\* be empty
FilterValues ==
    /\ pc = "filter"
    /\ positions_df' = add_date(value_filter(positions_df), end_date)
    /\ pc' = "beta1"
    /\ UNCHANGED <<walletState, fetched_prices, history, missing_beta_warning,
                   fileState, runState, callState>>

\* first beta pass, on CryptoCompare (lines 229-230)
BetaPrimary(benchmarks, outcomes) ==
    /\ pc = "beta1"
    /\ \E btc_data \in benchmarks :
       \E h \in HistoryFor(BaseAssets(positions_df), outcomes) :
          LET res == add_beta_to_positions(positions_df, btc_data, h, "cryptocompare")
          IN  /\ btc_data = "EMPTY" => h = [a \in BaseAssets(positions_df) |-> "EMPTY"]
              /\ history' = [history EXCEPT !.btc1 = btc_data, !.primary = h]
              /\ positions_df' = res.df
              /\ pc' = IF res.exc # "none" THEN "crashed" ELSE "beta2"
    /\ UNCHANGED <<walletState, fetched_prices, missing_beta_warning,
                   fileState, runState, callState>>

\* second beta pass, on Binance, for the assets still missing (lines 233-250)
BetaSecondary(benchmarks, outcomes) ==
    /\ pc = "beta2"
    /\ LET missing == missing_beta_assets(positions_df)
       IN  IF missing = {}
           THEN /\ pc' = "persist"
                /\ UNCHANGED <<positions_df, history, missing_beta_warning>>
           ELSE /\ missing_beta_warning' =
                       [logged |-> TRUE, assets |-> missing,
                        value |-> missing_value(positions_df, missing)]
                /\ \E btc_data \in benchmarks :
                   \E h \in HistoryFor(BaseAssets(missing_positions(positions_df, missing)),
                                       outcomes) :
                      LET missing_positions_df == missing_positions(positions_df, missing)
                          res == add_beta_to_positions(missing_positions_df, btc_data,
                                                       h, "binance")
                      IN  /\ btc_data = "EMPTY" => h = [a \in DOMAIN h |-> "EMPTY"]
                          /\ history' = [history EXCEPT !.btc2 = btc_data,
                                                        !.secondary = h]
                          /\ IF res.exc # "none"
                             THEN /\ pc' = "crashed"
                                  /\ UNCHANGED positions_df
                             ELSE /\ pc' = "persist"
                                  /\ positions_df' = DataFrameUpdate(positions_df, res.df)
    /\ UNCHANGED <<walletState, fetched_prices, fileState, runState, callState>>

\* the snapshot is written and appended to the ledger (lines 253-268)
Persist ==
    /\ pc = "persist"
    /\ positions_file' = positions_df
    /\ positions_db' = concat(positions_db, positions_df)
    /\ pc' = "done"
    /\ UNCHANGED <<walletState, tableState, runState, callState>>

\* main() is started again, the same day or the next (lines 281-282)
NewRun ==
    /\ pc \in {"done", "crashed"}
    /\ runs < MaxRuns
    /\ runs' = runs + 1
    /\ \E day \in {end_date, end_date + 1} : end_date' = day
    /\ pc' = "wallets"
    /\ wi' = 1
    /\ indexer' = <<>>
    /\ portfolio' = <<>>
    /\ transactions' = Unbound
    /\ all_positions' = <<>>
    /\ all_transactions' = <<>>
    /\ wallet_errors' = {}
    /\ positions_df' = <<>>
    /\ fetched_prices' = <<>>
    /\ history' = NoHistory
    /\ missing_beta_warning' = NoWarning
    /\ UNCHANGED <<fileState, callState>>

\* inputs of the full run: one subaccount of well-formed records, open
\* positions of either market, positions of one market closed in the window
PipelinePerps ==
    {p \in RawPerps :
        /\ p.oracle = MaxPrice
        /\ p.missing = "none"
        /\ p.status = "OPEN" => p.size = MaxSize
        /\ p.status = "CLOSED" => p.market = BTC_USD /\ p.closedAt = StartDate}

PipelineAccounts ==
    {f \in FirstSubaccounts(PipelinePerps) : f.equity = MaxEquity}

\* the fills request answered with one fill
OneFill == {f \in DydxFills : ~f.raises /\ Len(f.fills) = 1}

Next ==
    \/ ProcessWallet(PipelineAccounts, {<<>>}, OneFill, {EmptyPortfolio})
    \/ EnrichAndFill
    \/ FilterValues
    \/ BetaPrimary({"VALID", "EMPTY"}, FetchOutcomes)
    \/ BetaSecondary({"VALID", "EMPTY"}, FetchOutcomes)
    \/ Persist

Spec == Init /\ [][Next]_vars

\* inputs of the adapter alone: every size, price and equity, one or more
\* subaccounts; open positions of one market, closed ones of the other
AttrPerps ==
    {p \in RawPerps :
        /\ p.status = "OPEN" /\ p.missing = "none" => p.market = ETH_USD
        /\ p.status = "CLOSED" => p.market = BTC_USD /\ p.size = 0}

NextAttr ==
    ProcessWallet(FirstSubaccounts(AttrPerps), MoreSubaccounts, OneFill,
                  {EmptyPortfolio})

SpecAttr == Init /\ [][NextAttr]_vars

\* inputs of repeated runs: a few dYdX accounts, every fills answer, every
\* Octav portfolio, every history valid
RunPerps ==
    {p \in RawPerps :
        /\ p.market = BTC_USD /\ p.oracle = MaxPrice
        /\ p.size = MaxSize \/ p.missing # "none"
        /\ p.closedAt \in {0, StartDate}
        /\ p.missing # "none" => p.status = "OPEN"}

RunAccounts ==
    {f \in FirstSubaccounts(RunPerps) :
        /\ f.equity = MaxEquity /\ f.usdc = 0 /\ Len(f.perps) <= 2
        /\ Len(f.perps) = 2 =>
              /\ f.perps[1].status = "OPEN" /\ f.perps[2].status = "CLOSED"
              /\ f.perps[1].missing = "none"}

NextRuns ==
    \/ ProcessWallet(RunAccounts, {<<>>}, DydxFills, OctavPortfolios)
    \/ EnrichAndFill
    \/ FilterValues
    \/ BetaPrimary({"VALID"}, {"VALID"})
    \/ BetaSecondary({"VALID"}, {"VALID"})
    \/ Persist
    \/ NewRun

SpecRuns == Init /\ [][NextRuns]_vars

(***************************************************************************)
(* The beta of one asset (beta_calculator.py): the rolling covariance of   *)
(* the asset's and the benchmark's returns over the rolling variance of    *)
(* the benchmark's, at the most recent point.  The two series end on the   *)
(* same day and have a return for every day back to their first.           *)
(***************************************************************************)
MaxSamples == 3
ScenarioSamples == 30

BETA_LOOKBACK == 180

\* IEEE 754 infinities, which a float division by zero yields in pandas
PosInf == [nan |-> FALSE, n |-> 1, d |-> 0]
NegInf == [nan |-> FALSE, n |-> -1, d |-> 0]

IsFinite(a) == ~a.nan /\ a.d # 0

Sub(a, b) == Add(a, Mul(Num(-1), b))

Min(a, b) == IF a <= b THEN a ELSE b

\* the last window samples of a series
LastWindow(series, window) ==
    SubSeq(series, Len(series) - window + 1, Len(series))

Mean(x) == Div(SumSeq(x), Num(Len(x)))

\* Series.rolling(window).var() at the most recent point: NaN with fewer
\* than window observations, and with one (ddof = 1)
rolling_var(series, window) ==
    IF window = 0 \/ Len(series) < window \/ window = 1 THEN NaN
    ELSE LET x == LastWindow(series, window)
             m == Mean(x)
         IN  Div(SumSeq([i \in 1..window |-> Mul(Sub(x[i], m), Sub(x[i], m))]),
                 Num(window - 1))

\* the second moment about zero, in place of the covariance
rolling_cov_uncentred(series, other, window) ==
    IF window = 0 \/ Len(series) < window \/ Len(other) < window \/ window = 1
    THEN NaN
    ELSE LET x == LastWindow(series, window)
             y == LastWindow(other, window)
         IN  Div(SumSeq([i \in 1..window |-> Mul(x[i], y[i])]), Num(window - 1))

\* Series.rolling(window).cov(other) at the most recent point: the pairs of
\* the last window days, NaN when either series lacks one of them
rolling_cov(series, other, window) ==
    IF window = 0 \/ Len(series) < window \/ Len(other) < window \/ window = 1
    THEN NaN
    ELSE LET x == LastWindow(series, window)
             y == LastWindow(other, window)
             mx == Mean(x)
             my == Mean(y)
         IN  Div(SumSeq([i \in 1..window |-> Mul(Sub(x[i], mx), Sub(y[i], my))]),
                 Num(window - 1))

\* the division of Python scalars, which raises on a zero divisor
scalar_div(a, b) ==
    IF IsZero(b) THEN [exc |-> "ZeroDivisionError", value |-> NaN]
    ELSE [exc |-> "none", value |-> Div(a, b)]

\* the division of two float Series (line 9): it never raises; 0/0 is NaN
\* and x/0 is an infinity
series_div(a, b) ==
    [exc |-> "none",
     value |-> IF a.nan \/ b.nan THEN NaN
               ELSE IF ~IsZero(b) THEN Div(a, b)
               ELSE IF IsZero(a) THEN NaN
               ELSE IF a.n > 0 THEN PosInf ELSE NegInf]

\* calculate_beta (lines 5-10), at the most recent point
calculate_beta(asset_returns, btc_returns, window) ==
    LET covariance == rolling_cov(asset_returns, btc_returns, window)
        variance == rolling_var(btc_returns, window)
    IN  series_div(covariance, variance)

\* the daily half of the loop body (lines 26-41): the window, the most
\* recent beta, and NaN when something raised; .iloc[-1] raises on a beta
\* series without any day
daily_beta(asset_returns, btc_returns) ==
    LET window_daily == Min(Len(asset_returns), BETA_LOOKBACK)
        beta == calculate_beta(asset_returns, btc_returns, window_daily)
    IN  IF beta.exc # "none"
        THEN [raised |-> beta.exc, computed |-> NaN, value |-> NaN]
        ELSE IF asset_returns = <<>> /\ btc_returns = <<>>
        THEN [raised |-> "IndexError", computed |-> NaN, value |-> NaN]
        ELSE [raised |-> "none", computed |-> beta.value, value |-> beta.value]

\* the beta as the table holds it
StoredBeta(v) == IF v.nan THEN BetaNaN ELSE BetaFrom(v)

\* one pass: the loop body, the assignment to the asset's rows and the
\* stable override (lines 21-50)
BetaPass ==
    /\ ~beta_daily.made
    /\ LET res == daily_beta(asset_daily_returns, btc_daily_returns)
       IN  beta_daily' =
               [made |-> TRUE, raised |-> res.raised, computed |-> res.computed,
                value |-> stable_override([asset_type |-> asset_type],
                                          StoredBeta(res.value))]
    /\ UNCHANGED <<asset_type, asset_daily_returns, btc_daily_returns>>
    /\ UNCHANGED <<pipelineState, retryState, priceState, pageState>>

\* daily returns: none, one percent, two percent
Returns == {Num(0), Rat(1, 100), Rat(2, 100)}

\* the series of the explored passes: every short pair of series, and the
\* pair of constant series of ScenarioSamples days
ReturnPairs ==
    (SeqsUpTo(Returns, MaxSamples) \X SeqsUpTo(Returns, MaxSamples))
    \cup {<<[i \in 1..ScenarioSamples |-> Rat(2, 100)],
            [i \in 1..ScenarioSamples |-> Rat(1, 100)]>>}

InitBeta ==
    /\ PipelineInit /\ NoFetch /\ NoPriceFetch /\ NoPageFetch
    /\ asset_type \in {"MAJOR", "STABLE"}
    /\ \E pair \in ReturnPairs :
          /\ asset_daily_returns = pair[1]
          /\ btc_daily_returns = pair[2]
    /\ beta_daily = NoBeta

NextBeta == BetaPass

SpecBeta == InitBeta /\ [][NextBeta]_vars

(***************************************************************************)
(* The dYdX adapter over more markets: every market is BASE-USD.           *)
(***************************************************************************)
EOS == <<"E", "O", "S">>
WLD == <<"W", "L", "D">>
SOL == <<"S", "O", "L">>

Bases == {BTC, ETH, EOS, WLD, SOL}

\* the market of a base symbol
MarketOf(base) == base \o <<"-", "U", "S", "D">>

\* well-formed records of any market: open ones, and ones closed in the
\* window
MarketPerps ==
    [market : {MarketOf(b) : b \in Bases}, status : {"OPEN"}, size : {MaxSize},
     entryPrice : {2}, oracle : {MaxPrice}, closedAt : {0}, missing : {"none"}]
    \cup
    [market : {MarketOf(b) : b \in Bases}, status : {"CLOSED"}, size : {0},
     entryPrice : {2}, oracle : {MaxPrice}, closedAt : {StartDate},
     missing : {"none"}]

NextMarkets ==
    ProcessWallet(FirstSubaccounts(MarketPerps), {<<>>}, OneFill, {EmptyPortfolio})

SpecMarkets == Init /\ [][NextMarkets]_vars

(***************************************************************************)
(* fetch_with_retries (utils.py) and fetch_data (solana.py): a request is  *)
(* repeated, after a growing delay, while the server answers 429.          *)
(***************************************************************************)
MaxRetries == 3

TooManyRequests == 429

\* the bodies a successful response carries: two JSON documents and a page
\* that is not JSON
Bodies == {"{}", "[1]", "busy"}

JsonBodies == {"{}", "[1]"}

\* what a request can meet: a response, or an exception of requests before
\* any response (ConnectionError, Timeout)
Answers ==
    [kind : {"response"}, status_code : {200}, body : Bodies]
    \cup [kind : {"response"}, status_code : {404, TooManyRequests, 500},
          body : {"busy"}]
    \cup [kind : {"ConnectionError", "Timeout"}, status_code : {0}, body : {"-"}]

\* the exception the try body raises on an answer (lines 30-35): that of
\* the request, HTTPError of raise_for_status, JSONDecodeError of json()
try_body(answer) ==
    IF answer.kind # "response" THEN answer.kind
    ELSE IF answer.status_code >= 400 THEN "HTTPError"
    ELSE IF answer.body \notin JsonBodies THEN "JSONDecodeError"
    ELSE "none"

\* the except clause that takes the exception: utils.py has a clause for
\* RequestException (line 36), of which all four are subclasses;
\* solana.py has one for HTTPError (line 40) and then one for Exception
rate_limit_clause(function, exception) ==
    IF function = "fetch_with_retries" THEN TRUE ELSE exception = "HTTPError"

\* the loop may try one more time than retries
may_try_once_more(tried, allowed) == tried <= allowed

\* the loop condition (line 28)
may_try(tried, allowed) == tried < allowed

\* the delay computed from the attempts already made
delay_short(tried) == 5 * tried

\* the delay before the next retry (line 38)
delay(tried) == 5 * (tried + 1)

\* one iteration of the loop (lines 28-47).  The local response is bound
\* by a request that returns and keeps its value when the request raises.
Attempt ==
    /\ fetch_result.state = "running"
    /\ may_try(attempt, retries)
    /\ \E answer \in Answers :
          LET exception == try_body(answer)
              bound == IF answer.kind = "response"
                       THEN [bound |-> TRUE, status_code |-> answer.status_code,
                             body |-> answer.body]
                       ELSE response
          IN  /\ served' = Append(served, answer)
              /\ response' = bound
              /\ IF exception = "none"
                 THEN /\ fetch_result' = [state |-> "returned", value |-> answer.body]
                      /\ UNCHANGED <<attempt, sleeps>>
                 ELSE IF ~rate_limit_clause(fn, exception)
                 THEN /\ fetch_result' = [state |-> "raised", value |-> exception]
                      /\ UNCHANGED <<attempt, sleeps>>
                 ELSE IF ~bound.bound
                 THEN /\ fetch_result' = [state |-> "raised",
                                          value |-> "UnboundLocalError"]
                      /\ UNCHANGED <<attempt, sleeps>>
                 ELSE IF bound.status_code = TooManyRequests
                 THEN /\ sleeps' = Append(sleeps, delay(attempt))
                      /\ attempt' = attempt + 1
                      /\ UNCHANGED fetch_result
                 ELSE /\ fetch_result' = [state |-> "raised", value |-> exception]
                      /\ UNCHANGED <<attempt, sleeps>>
    /\ UNCHANGED <<fn, retries>>
    /\ UNCHANGED <<pipelineState, betaState, priceState, pageState>>

\* the loop ends without a return (line 48)
Exhausted ==
    /\ fetch_result.state = "running"
    /\ ~may_try(attempt, retries)
    /\ fetch_result' = [state |-> "raised", value |-> "RetryError"]
    /\ UNCHANGED <<fn, retries, attempt, response, served, sleeps>>
    /\ UNCHANGED <<pipelineState, betaState, priceState, pageState>>

InitFetch ==
    /\ PipelineInit /\ NoBetaPass /\ NoPriceFetch /\ NoPageFetch
    /\ fn \in {"fetch_with_retries", "fetch_data"}
    /\ retries \in 0..MaxRetries
    /\ attempt = 0
    /\ response = NoResponse
    /\ served = <<>>
    /\ sleeps = <<>>
    /\ fetch_result = Running

NextFetch == Attempt \/ Exhausted

SpecFetch == InitFetch /\ [][NextFetch]_vars

\* the loop is sequential code: a request that was made ends, with an
\* answer or with an exception, and the statement after it runs
SpecFetchFair == SpecFetch /\ WF_vars(Attempt) /\ WF_vars(Exhausted)

(***************************************************************************)
(* fetch_price and fetch_multiple_prices (fetch_prices.py): CryptoCompare  *)
(* first, then CoinGecko under the symbol's coingecko_id.                  *)
(***************************************************************************)
MaxSymbols == 2

\* what a price source answers: a price, None, or the request raises
NoPrice == [k |-> "None", v |-> NaN]
PriceRaises == [k |-> "raises", v |-> NaN]
SourceAnswers == {[k |-> "price", v |-> Num(MaxPrice)], NoPrice, PriceRaises}

\* the asset dictionary is read from assets.xlsx (config.py, lines 37-38):
\* a symbol is not a key of it, or its row holds an identifier, or the
\* cell is blank, which read_excel turns into the float NaN (the rows that
\* append_missing_symbols_to_excel adds have blank cells)
AssetRows ==
    {[key |-> FALSE, coingecko_id |-> [t |-> "None", v |-> "-"]],
     [key |-> TRUE, coingecko_id |-> [t |-> "str", v |-> "bitcoin"]],
     [key |-> TRUE, coingecko_id |-> [t |-> "float", v |-> "nan"]]}

PriceSymbols == {BTC, ETH}

\* what the dictionary and the two sources hold for a symbol
SourceStates ==
    [asset_info : AssetRows, cryptocompare : SourceAnswers,
     coingecko : SourceAnswers]

\* get_coingecko_id (lines 10-23)
get_coingecko_id(asset_info) ==
    IF asset_info.key THEN asset_info.coingecko_id ELSE [t |-> "None", v |-> "-"]

\* the truth value of an object: None and the empty string are false, a
\* float is false when it is 0, and NaN is not 0
Truthy(x) ==
    CASE x.t = "None" -> FALSE
      [] x.t = "str" -> x.v # ""
      [] x.t = "float" -> x.v # "0.0"

\* fetch_price (lines 25-42): the sources it queries, in order, and what
\* it returns; an exception of either request is not caught
fetch_price(held) ==
    IF held.cryptocompare.k = "raises"
    THEN [sources |-> <<"cryptocompare">>, returned |-> PriceRaises]
    ELSE IF held.cryptocompare.k = "price"
    THEN [sources |-> <<"cryptocompare">>, returned |-> held.cryptocompare]
    ELSE IF Truthy(get_coingecko_id(held.asset_info))
    THEN [sources |-> <<"cryptocompare", "coingecko">>, returned |-> held.coingecko]
    ELSE [sources |-> <<"cryptocompare">>, returned |-> NoPrice]

\* one iteration of the loop of fetch_multiple_prices (lines 55-58); an
\* exception of fetch_price ends the call
FetchPrice ==
    /\ si >= 1 /\ si <= Len(symbols)
    /\ LET symbol == symbols[si]
           res == fetch_price(price_sources[symbol])
       IN  /\ queried' = Append(queried, [symbol |-> symbol, sources |-> res.sources,
                                          returned |-> res.returned])
           /\ IF res.returned.k = "raises"
              THEN si' = 0 /\ UNCHANGED prices
              ELSE /\ si' = si + 1
                   /\ prices' =
                        IF res.returned.k = "price"
                        THEN [x \in DOMAIN prices \cup {symbol} |->
                                 IF x = symbol THEN res.returned.v ELSE prices[x]]
                        ELSE prices
    /\ UNCHANGED <<symbols, price_sources>>
    /\ UNCHANGED <<pipelineState, betaState, retryState, pageState>>

InitPrices ==
    /\ PipelineInit /\ NoBetaPass /\ NoFetch /\ NoPageFetch
    /\ symbols \in SeqsUpTo(PriceSymbols, MaxSymbols)
    /\ price_sources \in [PriceSymbols -> SourceStates]
    /\ queried = <<>>
    /\ prices = <<>>
    /\ si = 1

NextPrices == FetchPrice

SpecPrices == InitPrices /\ [][NextPrices]_vars

(***************************************************************************)
(* fetch_and_filter_transactions (blockcypher.py): the address' pages of   *)
(* transactions, newest block first, filtered by the time they were        *)
(* received.  Times are days; the window is StartDate .. EndDate, the      *)
(* whole of EndDate included.                                              *)
(***************************************************************************)
\* the page size the code asks for (50), the largest max_transactions and
\* the highest block
PageLimit == 2
MaxTransactions == 3
MaxHeight == 3

\* the 'received' field of a transaction: an ISO string, absent, or of a
\* type the code does not expect
Receiveds ==
    [t : {"str"}, at : (StartDate - 1)..(EndDate + 1)]
    \cup [t : {"absent", "other"}, at : {0}]

Txs == [received : Receiveds, block_height : 1..MaxHeight]

\* the pages the API can serve below a block: at most PageLimit
\* transactions, newest block first; before = 0 stands for None
PagesBefore(height) ==
    {page \in SeqsUpTo(Txs, PageLimit) :
        /\ \A i \in 1..Len(page) : height # 0 => page[i].block_height < height
        /\ \A i \in 1..(Len(page) - 1) :
              page[i].block_height >= page[i + 1].block_height}

\* the loop over a page (lines 131-145): transactions inside the window
\* are appended, and the first one before the window ends the call
RECURSIVE scan_page(_, _, _, _)
scan_page(page, found, start_datetime, end_datetime) ==
    IF page = <<>> THEN [txs |-> found, returns |-> FALSE]
    ELSE LET tx == Head(page)
         IN  IF tx.received.t # "str"
             THEN scan_page(Tail(page), found, start_datetime, end_datetime)
             ELSE IF start_datetime <= tx.received.at /\ tx.received.at <= end_datetime
             THEN scan_page(Tail(page), Append(found, tx), start_datetime,
                            end_datetime)
             ELSE IF tx.received.at < start_datetime
             THEN [txs |-> found, returns |-> TRUE]
             ELSE scan_page(Tail(page), found, start_datetime, end_datetime)

\* one iteration of the loop (lines 120-150): a page is fetched and
\* scanned; an empty or a short page ends the loop
FetchPage ==
    /\ filter_result.state = "running"
    /\ Len(filtered) < max_transactions
    /\ \E new_txs \in PagesBefore(before) :
          IF new_txs = <<>>
          THEN /\ filter_result' = [state |-> "returned", value |-> "-"]
               /\ UNCHANGED <<before, filtered>>
          ELSE LET scan == scan_page(new_txs, filtered, StartDate, EndDate)
               IN  /\ filtered' = scan.txs
                   /\ IF scan.returns \/ Len(new_txs) < PageLimit
                      THEN /\ filter_result' = [state |-> "returned", value |-> "-"]
                           /\ UNCHANGED before
                      ELSE /\ before' = new_txs[Len(new_txs)].block_height
                           /\ UNCHANGED filter_result
    /\ UNCHANGED max_transactions
    /\ UNCHANGED <<pipelineState, betaState, retryState, priceState>>

\* the loop condition fails and the list is returned (lines 120, 152-153)
EnoughFetched ==
    /\ filter_result.state = "running"
    /\ Len(filtered) >= max_transactions
    /\ filter_result' = [state |-> "returned", value |-> "-"]
    /\ UNCHANGED <<max_transactions, before, filtered>>
    /\ UNCHANGED <<pipelineState, betaState, retryState, priceState>>

InitPages ==
    /\ PipelineInit /\ NoBetaPass /\ NoFetch /\ NoPriceFetch
    /\ max_transactions \in 1..MaxTransactions
    /\ before = 0
    /\ filtered = <<>>
    /\ filter_result = Running

NextPages == FetchPage \/ EnoughFetched

SpecPages == InitPages /\ [][NextPages]_vars

(***************************************************************************)
(* Vocabulary of the properties.                                           *)
(***************************************************************************)
DydxWallet == WALLETS[1]

\* the dYdX wallet has been through process_wallets
Processed == indexer # <<>>

Raised(w) == \E e \in wallet_errors : e.wallet = w

RaisedWith(w, exc) == [wallet |-> w, exc |-> exc] \in wallet_errors

OpenIdx(sub) == {i \in 1..Len(sub.perps) : sub.perps[i].status = "OPEN"}

ClosedInWindowIdx(sub) ==
    {i \in 1..Len(sub.perps) :
        /\ sub.perps[i].status = "CLOSED"
        /\ StartDate <= sub.perps[i].closedAt
        /\ sub.perps[i].closedAt <= EndDate}

WellFormed(sub) == \A i \in 1..Len(sub.perps) : sub.perps[i].missing = "none"

\* notional of an upstream record: |size * price|
RawNotional(p) ==
    AbsInt(p.size * (IF p.oracle = OracleDown THEN p.entryPrice ELSE p.oracle))

RECURSIVE SumOver(_, _)
SumOver(S, f) ==
    IF S = {} THEN 0
    ELSE LET x == CHOOSE y \in S : TRUE IN f[x] + SumOver(S \ {x}, f)

OpenNotional(sub) ==
    SumOver(OpenIdx(sub), [i \in OpenIdx(sub) |-> RawNotional(sub.perps[i])])

\* rows of the dYdX wallet made from open (closed) upstream records
RowsOf(table, kind) ==
    SelectSeq(table, LAMBDA row :
        row.wallet_id = DydxWallet.id /\ row.origin.kind = kind)

Equities_(rows) == [k \in 1..Len(rows) |-> rows[k].equity]

\* the share the contract gives to record i of subaccount sub
ContractShare(sub, i) ==
    Rat(RawNotional(sub.perps[i]) * sub.equity, OpenNotional(sub))

(***************************************************************************)
(* C1: whenever the attribution step emits the open positions of an        *)
(* account (their total notional is then > 0), every open position of the  *)
(* account is among them and their attributed equities sum to the          *)
(* account's reported total equity.                                        *)
(***************************************************************************)
C1_SumEqualsTotalEquity ==
    Processed =>
        LET sub == indexer[1][1]
            rows == RowsOf(all_positions, "OPEN")
        IN  /\ rows # <<>> =>
                /\ OpenNotional(sub) > 0
                /\ Len(rows) = Cardinality(OpenIdx(sub))
                /\ SumSeq(Equities_(rows)) = Num(sub.equity)
            /\ (WellFormed(sub) /\ OpenNotional(sub) > 0) => rows # <<>>

\* two open positions of different positive notional, both attributed
C1_Witness ==
    /\ Processed
    /\ LET rows == RowsOf(all_positions, "OPEN")
       IN  /\ Len(rows) = 2
           /\ Less(Num(0), rows[1].notional)
           /\ Less(rows[1].notional, rows[2].notional)
           /\ rows[1].amount.n < 0
           /\ indexer[1][1].equity = MaxEquity
           /\ rows[1].equity # rows[2].equity

(***************************************************************************)
(* C2: when the open positions of the account have notionals that sum to   *)
(* exactly 0, process_dydxv4_positions raises no division error and every  *)
(* open position is emitted with equity 0.                                 *)
(***************************************************************************)
C2_ZeroNotionalGivesZeroEquity ==
    (Processed /\ WellFormed(indexer[1][1]) /\ OpenIdx(indexer[1][1]) # {}
        /\ OpenNotional(indexer[1][1]) = 0) =>
        /\ ~RaisedWith(DydxWallet.id, "ZeroDivisionError")
        /\ LET rows == RowsOf(all_positions, "OPEN")
           IN  /\ Len(rows) = Cardinality(OpenIdx(indexer[1][1]))
               /\ \A k \in 1..Len(rows) : rows[k].equity = Num(0)

(***************************************************************************)
(* C3 as stated: the only open position of an account is attributed 100%   *)
(* of the account's total equity, for every size and price.                *)
(***************************************************************************)
C3_SingleGetsAll_Original ==
    (Processed /\ WellFormed(indexer[1][1])
        /\ Cardinality(OpenIdx(indexer[1][1])) = 1) =>
        LET rows == RowsOf(all_positions, "OPEN")
        IN  /\ Len(rows) = 1
            /\ rows[1].equity = Num(indexer[1][1].equity)

(***************************************************************************)
(* C3 amended: the only open position of an account, when its notional is  *)
(* not zero, is attributed 100% of the account's total equity; with a      *)
(* notional of zero it is never emitted with a share of the equity.        *)
(***************************************************************************)
C3_SingleGetsAll ==
    (Processed /\ Cardinality(OpenIdx(indexer[1][1])) = 1) =>
        LET sub == indexer[1][1]
            rows == RowsOf(all_positions, "OPEN")
        IN  /\ rows # <<>> =>
                /\ Len(rows) = 1
                /\ OpenNotional(sub) # 0
                /\ rows[1].equity = Num(sub.equity)
            /\ (WellFormed(sub) /\ OpenNotional(sub) # 0) => rows # <<>>

C3_Witness ==
    /\ Processed
    /\ Cardinality(OpenIdx(indexer[1][1])) = 1
    /\ Len(indexer[1][1].perps) = 2
    /\ indexer[1][1].equity = MaxEquity
    /\ LET rows == RowsOf(all_positions, "OPEN")
       IN  /\ Len(rows) = 1
           /\ rows[1].equity = Num(MaxEquity)
           /\ rows[1].notional = Num(MaxPrice)

(***************************************************************************)
(* C4 as stated: with total notional > 0, every attributed equity is >= 0  *)
(* for every reported account equity.                                      *)
(***************************************************************************)
C4_SharesNonNegative_Original ==
    Processed =>
        LET rows == RowsOf(all_positions, "OPEN")
        IN  \A k \in 1..Len(rows) : GreaterEq(rows[k].equity, Num(0))

(***************************************************************************)
(* C4 amended: with total notional > 0 and a reported account equity that  *)
(* is >= 0, every attributed equity is >= 0; with a negative account       *)
(* equity every attributed equity is <= 0.                                 *)
(***************************************************************************)
C4_SharesNonNegative ==
    Processed =>
        LET sub == indexer[1][1]
            rows == RowsOf(all_positions, "OPEN")
        IN  \A k \in 1..Len(rows) :
               IF sub.equity >= 0
               THEN GreaterEq(rows[k].equity, Num(0))
               ELSE GreaterEq(Num(0), rows[k].equity)

\* a short position among the attributed ones, with positive account equity
C4_Witness ==
    /\ Processed
    /\ indexer[1][1].equity > 0
    /\ LET rows == RowsOf(all_positions, "OPEN")
       IN  /\ Len(rows) = 2
           /\ \E k \in 1..2 : rows[k].amount.n < 0 /\ Less(Num(0), rows[k].equity)

(***************************************************************************)
(* C5: for every subaccount of the wallet, whenever the adapter returns,   *)
(* each open position of that subaccount is emitted with the pro-rata      *)
(* share computed from that subaccount's own equity and own notionals.     *)
(***************************************************************************)
C5_PerSubaccountAttribution ==
    (Processed /\ ~Raised(DydxWallet.id)) =>
        \A s \in 1..Len(indexer[1]) :
            LET sub == indexer[1][s]
            IN  OpenNotional(sub) > 0 =>
                    \A i \in OpenIdx(sub) :
                        \E k \in 1..Len(all_positions) :
                            /\ all_positions[k].wallet_id = DydxWallet.id
                            /\ all_positions[k].origin.kind = "OPEN"
                            /\ all_positions[k].symbol =
                                   RStrip(sub.perps[i].market, {"-", "U", "S", "D"})
                            /\ all_positions[k].amount = Num(sub.perps[i].size)
                            /\ all_positions[k].equity = ContractShare(sub, i)

(***************************************************************************)
(* C8: when one perpetual position record of the account is malformed, the *)
(* wallet is not dropped and the other open positions are emitted.         *)
(***************************************************************************)
C8_MalformedSkipsOnlyThatPosition ==
    LET sub == indexer[1][1]
        bad == {i \in OpenIdx(sub) \cup ClosedInWindowIdx(sub) :
                   sub.perps[i].missing # "none"}
        good == {i \in OpenIdx(sub) : sub.perps[i].missing = "none"}
    IN  (Processed /\ Cardinality(bad) = 1
            /\ good # {} /\ \A i \in good : RawNotional(sub.perps[i]) > 0) =>
            /\ ~Raised(DydxWallet.id)
            /\ Len(RowsOf(all_positions, "OPEN")) = Cardinality(good)

(***************************************************************************)
(* C6: every closed perpetual position in the final positions table has    *)
(* equity 0.                                                               *)
(***************************************************************************)
C6_ClosedEquityZero ==
    pc = "done" =>
        LET rows == RowsOf(positions_file, "CLOSED")
        IN  \A k \in 1..Len(rows) : rows[k].equity = Num(0)

(***************************************************************************)
(* C7: every perpetual position closed within the lookback window is a row *)
(* of the persisted snapshot, whatever its size and value.                 *)
(***************************************************************************)
C7_ClosedInSnapshot ==
    (pc = "done" /\ Processed /\ ~Raised(DydxWallet.id)) =>
        \A i \in ClosedInWindowIdx(indexer[1][1]) :
            \E k \in 1..Len(positions_file) :
                /\ positions_file[k].wallet_id = DydxWallet.id
                /\ positions_file[k].origin = [kind |-> "CLOSED", idx |-> i]

(***************************************************************************)
(* C9: once the first beta pass has run, and in the persisted snapshot,    *)
(* every position with asset_type STABLE has beta_daily = 0 and            *)
(* beta_weekly = 0, whatever the history fetch of its base asset gave.     *)
(***************************************************************************)
StableZero(table) ==
    \A k \in 1..Len(table) :
        table[k].asset_type = "STABLE" =>
            table[k].beta_daily = BetaZero /\ table[k].beta_weekly = BetaZero

C10_FallbackToSecondary ==
    pc = "done" =>
        \A k \in 1..Len(positions_file) :
            LET X == positions_file[k].base_asset
            IN  (/\ positions_file[k].asset_type # "STABLE"
                 /\ history.primary[X] = "EMPTY") =>
                    /\ history.btc2 = "VALID"
                    /\ X \in DOMAIN history.secondary
                    /\ history.secondary[X] = "VALID" =>
                           /\ positions_file[k].beta_daily = BetaFrom("binance")
                           /\ positions_file[k].beta_weekly = BetaFrom("binance")

\* X fell back to the secondary source while another asset kept its primary
\* beta
C10_Witness ==
    /\ pc = "done"
    /\ \E k, j \in 1..Len(positions_file) :
          /\ history.primary[positions_file[k].base_asset] = "EMPTY"
          /\ positions_file[k].beta_daily = BetaFrom("binance")
          /\ positions_file[j].beta_daily = BetaFrom("cryptocompare")

(***************************************************************************)
(* C11: the secondary pass fetches only the base assets whose beta is      *)
(* missing after the primary pass, leaves beta_daily and beta_weekly of    *)
(* every position whose beta the primary pass computed unchanged, and      *)
(* leaves NaN the beta of an asset for which the secondary source fails    *)
(* too.                                                                    *)
(***************************************************************************)
C11_FallbackPerAsset ==
    [][pc = "beta2" =>
        /\ Len(positions_df') = Len(positions_df)
        /\ DOMAIN history'.secondary \subseteq missing_beta_assets(positions_df)
        /\ \A k \in 1..Len(positions_df) :
              LET row == positions_df[k]
                  X == row.base_asset
              IN  /\ row.beta_daily # BetaNaN =>
                        /\ positions_df'[k].beta_daily = row.beta_daily
                        /\ positions_df'[k].beta_weekly = row.beta_weekly
                  /\ (row.beta_daily = BetaNaN /\ history'.secondary[X] # "VALID") =>
                        /\ positions_df'[k].beta_daily = BetaNaN
                        /\ positions_df'[k].beta_weekly = BetaNaN]_vars

\* after the secondary pass one asset keeps its primary beta and another,
\* failing on both sources, stays NaN
C11_Witness ==
    /\ pc = "persist"
    /\ history.btc2 = "VALID"
    /\ \E k, j \in 1..Len(positions_df) :
          /\ positions_df[k].beta_daily = BetaFrom("cryptocompare")
          /\ positions_df[k].base_asset \notin DOMAIN history.secondary
          /\ positions_df[j].beta_daily = BetaNaN
          /\ history.secondary[positions_df[j].base_asset] = "RAISE"

(***************************************************************************)
(* C12: when the history of one base asset fails (the fetch raises or      *)
(* gives an empty series) inside add_beta_to_positions, the call returns,  *)
(* the positions of that asset get beta NaN (0 if stable), and every       *)
(* position of another base asset gets the beta it would have got had the  *)
(* failing asset's history been valid.                                     *)
(***************************************************************************)
C12_AssetFailureIsolated ==
    [][(pc = "beta1" /\ history'.btc1 = "VALID") =>
        LET h == history'.primary
        IN  /\ pc' = "beta2"
            /\ \A a \in DOMAIN h :
                  h[a] # "VALID" =>
                    LET healed == add_beta_to_positions(positions_df, "VALID",
                                      [h EXCEPT ![a] = "VALID"], "cryptocompare").df
                    IN  \A k \in 1..Len(positions_df) :
                          IF positions_df[k].base_asset = a
                          THEN /\ positions_df'[k].beta_daily =
                                     (IF positions_df[k].asset_type = "STABLE"
                                      THEN BetaZero ELSE BetaNaN)
                               /\ positions_df'[k].beta_weekly =
                                      positions_df'[k].beta_daily
                          ELSE positions_df'[k] = healed[k]]_vars

\* one asset's fetch raised, a stable asset's series was empty, a third
\* asset's beta was computed
C12_Witness ==
    /\ pc = "beta2"
    /\ \E k, j, l \in 1..Len(positions_df) :
          /\ history.primary[positions_df[k].base_asset] = "RAISE"
          /\ positions_df[k].beta_daily = BetaNaN
          /\ history.primary[positions_df[j].base_asset] = "EMPTY"
          /\ positions_df[j].beta_daily = BetaZero
          /\ history.primary[positions_df[l].base_asset] = "VALID"
          /\ positions_df[l].beta_daily = BetaFrom("cryptocompare")

(***************************************************************************)
(* C13: a missing historical series, the benchmark's included, on the      *)
(* primary or on the secondary source, never aborts the run.               *)
(***************************************************************************)
C13_MissingSeriesNeverAborts ==
    (history.btc1 = "EMPTY" \/ history.btc2 = "EMPTY") => pc # "crashed"

(***************************************************************************)
(* C14: at the end of a run the base assets named in the missing-beta      *)
(* warning are exactly those whose beta is still NaN after the secondary   *)
(* pass, and the value logged with them is the total value of their        *)
(* positions.                                                              *)
(***************************************************************************)
C14_WarningNamesUnresolved ==
    pc = "done" =>
        LET unresolved == missing_beta_assets(positions_file)
            reported == IF missing_beta_warning.logged
                        THEN missing_beta_warning.assets ELSE {}
        IN  /\ reported = unresolved
            /\ missing_beta_warning.logged =>
                  missing_beta_warning.value = missing_value(positions_file, unresolved)

(***************************************************************************)
(* C15: a wallet whose processing raised has none of its positions and     *)
(* none of its transactions in the tables process_wallets collects.        *)
(***************************************************************************)
C15_RaisedWalletContributesNothing ==
    \A e \in wallet_errors :
        /\ \A k \in 1..Len(all_positions) : all_positions[k].wallet_id # e.wallet
        /\ \A k \in 1..Len(all_transactions) :
              all_transactions[k].wallet_id # e.wallet

(***************************************************************************)
(* C16: after the fill every position has notional = abs(value), except    *)
(* that a stable-asset cash position with negative value has notional 0;   *)
(* a stable-asset position that is not cash (a borrow), with negative      *)
(* value, has notional = abs(value); notional is never negative.           *)
(***************************************************************************)
C16_NotionalRule ==
    pc = "filter" =>
        \A k \in 1..Len(positions_df) :
            LET row == positions_df[k]
            IN  /\ IF /\ row.asset_type = "STABLE" /\ row.position_type = "cash"
                      /\ Less(row.value, Num(0))
                   THEN row.notional = Num(0)
                   ELSE row.notional = AbsR(row.value)
                /\ ~Less(row.notional, Num(0))

(***************************************************************************)
(* C17: fill_missing_prices_values_and_equity sets equity to value for     *)
(* every position whose equity is missing and whose position_type is not   *)
(* 'perps', leaves a missing equity of a 'perps' position missing, and     *)
(* changes no equity, value or price that the adapter supplied.            *)
(***************************************************************************)
C17_FillFrame ==
    pc = "filter" =>
        /\ Len(positions_df) = Len(all_positions)
        /\ \A k \in 1..Len(positions_df) :
              LET given == all_positions[k]
                  row == positions_df[k]
              IN  /\ ~IsNaN(given.price) => row.price = given.price
                  /\ ~IsNaN(given.value) => row.value = given.value
                  /\ ~IsNaN(given.equity) => row.equity = given.equity
                  /\ (IsNaN(given.equity) /\ given.position_type # "perps") =>
                        row.equity = row.value
                  /\ (IsNaN(given.equity) /\ given.position_type = "perps") =>
                        IsNaN(row.equity)

\* a perps row left without equity, a perps row keeping its attributed
\* equity, and a manual row whose equity became its computed value
C17_Witness ==
    /\ pc = "filter"
    /\ \E k, j, l \in 1..Len(positions_df) :
          /\ positions_df[k].position_type = "perps"
          /\ IsNaN(positions_df[k].equity)
          /\ positions_df[j].position_type = "perps"
          /\ positions_df[j].equity = Num(MaxEquity)
          /\ positions_df[j].equity # positions_df[j].value
          /\ positions_df[l].position_type = "LOCK"
          /\ IsNaN(all_positions[l].value)
          /\ ~IsNaN(positions_df[l].equity)
          /\ positions_df[l].equity = positions_df[l].value

(***************************************************************************)
(* C18: every row of the persisted snapshot carries a non-null equity.     *)
(***************************************************************************)
C18_EquityFilled ==
    pc = "done" =>
        \A k \in 1..Len(positions_file) : ~IsNaN(positions_file[k].equity)

(***************************************************************************)
(* C19: no two rows of a persisted snapshot have the same position_id.     *)
(***************************************************************************)
C19_PositionIdUnique ==
    pc = "done" =>
        \A k, j \in 1..Len(positions_file) :
            k # j => positions_file[k].position_id # positions_file[j].position_id

(***************************************************************************)
(* C20: the ledger holds at most one row for each (date, position_id).     *)
(* Stated for two rows that different runs made from the same upstream     *)
(* record (rows of one run never share their origin): they never have the  *)
(* same date and position_id.                                              *)
(***************************************************************************)
C20_LedgerKeyUnique ==
    \A a, b \in 1..Len(positions_db) :
        (/\ a < b
         /\ positions_db[a].wallet_id = positions_db[b].wallet_id
         /\ positions_db[a].origin = positions_db[b].origin) =>
            ~(/\ positions_db[a].date = positions_db[b].date
              /\ positions_db[a].position_id = positions_db[b].position_id)

(***************************************************************************)
(* C21: in the snapshot a run appends to the ledger, a position whose      *)
(* position_id has a row in the previous day's slice of the ledger carries *)
(* that row's cost_basis, and a position with no previous-day row carries  *)
(* its current value as cost_basis (amount_change is the amount minus the  *)
(* previous amount, or the amount; main never creates that column).        *)
(***************************************************************************)
C21_LedgerDiff ==
    pc = "done" =>
        \A k \in 1..Len(positions_file) :
            LET row == positions_file[k]
                previous == SelectSeq(positions_db, LAMBDA old :
                                /\ old.date = end_date - 1
                                /\ old.position_id = row.position_id)
            IN  IF previous # <<>>
                THEN row.cost_basis = previous[1].cost_basis
                ELSE row.cost_basis = row.value

\* the variance of the benchmark's returns over the asset's window is zero
ZeroVariance ==
    IsZero(rolling_var(btc_daily_returns,
                       Min(Len(asset_daily_returns), BETA_LOOKBACK)))

\* the series of the scenario: constant asset returns of two percent and
\* constant benchmark returns of one percent, ScenarioSamples days each
ConstantSeries ==
    /\ asset_daily_returns = [i \in 1..ScenarioSamples |-> Rat(2, 100)]
    /\ btc_daily_returns = [i \in 1..ScenarioSamples |-> Rat(1, 100)]

C23_ConstantSeriesFinite ==
    beta_daily.made /\ ConstantSeries =>
        /\ beta_daily.raised = "none"
        /\ IsFinite(beta_daily.computed)

(***************************************************************************)
(* C23, amended: for those series the variance of the benchmark's returns  *)
(* is zero, and the beta at the most recent point is NaN; nothing is       *)
(* raised.                                                                 *)
(***************************************************************************)
C23_ConstantSeriesNaN ==
    beta_daily.made /\ ConstantSeries =>
        /\ ZeroVariance
        /\ beta_daily.raised = "none"
        /\ IsNaN(beta_daily.computed)

\* the pass over the constant series has been made, for a non-stable asset
C23_Witness == beta_daily.made /\ ConstantSeries /\ asset_type = "MAJOR"

\* the i-th request met a response with that status
Answered(i, codes) ==
    served[i].kind = "response" /\ served[i].status_code \in codes

\* the i-th request met a successful response
Successful(i) == served[i].kind = "response" /\ served[i].status_code < 400

\* what holds of a call at every moment: no more than retries requests;
\* a call that returned returned the body of the last request's response,
\* which is the first successful one; a call whose retries requests were
\* all answered 429 raises RetryError when it ends
C24_Bounded ==
    /\ Len(served) <= retries
    /\ fetch_result.state = "returned" =>
          /\ served # <<>>
          /\ Successful(Len(served))
          /\ fetch_result.value = served[Len(served)].body
          /\ \A i \in 1..(Len(served) - 1) : ~Successful(i)
    /\ (/\ fetch_result.state # "running"
        /\ Len(served) = retries
        /\ \A i \in 1..retries : Answered(i, {TooManyRequests})) =>
          fetch_result = [state |-> "raised", value |-> "RetryError"]

(***************************************************************************)
(* C24: a call of fetch_with_retries ends, whatever the server answers; it *)
(* makes at most retries requests, returns the JSON body of the first      *)
(* successful response, and raises RetryError once retries requests in a   *)
(* row were answered 429.                                                  *)
(***************************************************************************)
C24_Terminates == []C24_Bounded /\ <>(fetch_result.state # "running")

\* the call gave up after retries answers of 429, retries being at least 2
C24_Witness ==
    /\ fn = "fetch_with_retries" /\ retries >= 2 /\ Len(served) = retries
    /\ \A i \in 1..retries : Answered(i, {TooManyRequests})
    /\ fetch_result = [state |-> "raised", value |-> "RetryError"]

C29_RequestFailurePropagates ==
    fn = "fetch_with_retries" =>
        \A i \in 1..Len(served) :
            served[i].kind # "response" =>
                /\ i = Len(served)
                /\ fetch_result = [state |-> "raised", value |-> served[i].kind]

\* the symbol's row of the asset dictionary names a CoinGecko identifier
HasCoingeckoId(symbol) ==
    LET id == price_sources[symbol].asset_info.coingecko_id
    IN  price_sources[symbol].asset_info.key /\ id.t = "str" /\ id.v # ""

(***************************************************************************)
(* C26: fetch_price asks CryptoCompare first and returns its price when it *)
(* is not None; CoinGecko is asked only when CryptoCompare returned None   *)
(* and the symbol has a coingecko_id; fetch_multiple_prices returns an     *)
(* entry for exactly the symbols for which a price was obtained.           *)
(***************************************************************************)
C26_PriceFallback ==
    /\ \A i \in 1..Len(queried) :
          LET call == queried[i]
              held == price_sources[call.symbol]
          IN  /\ call.sources[1] = "cryptocompare"
              /\ held.cryptocompare.k = "price" =>
                    /\ call.returned = held.cryptocompare
                    /\ call.sources = <<"cryptocompare">>
              /\ (\E j \in 1..Len(call.sources) : call.sources[j] = "coingecko") =>
                    /\ held.cryptocompare = NoPrice
                    /\ HasCoingeckoId(call.symbol)
    /\ si > Len(symbols) =>
          DOMAIN prices =
              {queried[i].symbol : i \in {j \in 1..Len(queried) :
                                             queried[j].returned.k = "price"}}

(***************************************************************************)
(* C27: the list fetch_and_filter_transactions returns has at most         *)
(* max_transactions transactions, each received inside the window from     *)
(* start_date to the end of end_date, whatever pages the API serves.       *)
(***************************************************************************)
C27_AtMostMaxInWindow ==
    filter_result.state = "returned" =>
        /\ Len(filtered) <= max_transactions
        /\ \A i \in 1..Len(filtered) :
              /\ filtered[i].received.t = "str"
              /\ StartDate <= filtered[i].received.at
              /\ filtered[i].received.at <= EndDate

(***************************************************************************)
(* C28: the transactions table of process_wallets holds each wallet's own  *)
(* transactions once: the step of a wallet whose branch fetches no         *)
(* transactions (EVM) leaves the table as it is, so that no transaction of *)
(* an earlier wallet is appended a second time.                            *)
(***************************************************************************)
C28_OwnTransactionsOnce ==
    [][(/\ pc = "wallets"
        /\ wi <= Len(WALLETS)
        /\ WALLETS[wi].type = "EVM") => all_transactions' = all_transactions]_vars

\* the base symbol of a market BASE-USD
BaseOf(market) == SubSeq(market, 1, Len(market) - 4)

(***************************************************************************)
(* C30: the row made from a perpetual position of market BASE-USD has the  *)
(* symbol BASE, and its position_id ends with BASE, whatever letters the   *)
(* base ends with.                                                         *)
(***************************************************************************)
C30_SymbolIsBase ==
    (Processed /\ ~Raised(DydxWallet.id)) =>
        \A k \in 1..Len(all_positions) :
            LET row == all_positions[k]
            IN  (row.wallet_id = DydxWallet.id /\ row.origin.kind \in {"OPEN", "CLOSED"}) =>
                    LET base == BaseOf(indexer[1][1].perps[row.origin.idx].market)
                    IN  /\ row.symbol = base
                        /\ row.position_id[5] = base

====
